---- MODULE Spec2Model ----
(***************************************************************************)
(* State-machine model of the social-platform connection subsystem of      *)
(* synccontentBackend: the OAuth connect/callback views, the account       *)
(* table, the analytics fetchers and the analytics views                   *)
(* (apps/social_platforms/{views,services,models,serializers}.py).         *)
(*                                                                         *)
(* Every view is one atomic action.  What a provider answers to an         *)
(* outbound HTTP request is an input of the action, drawn from a small     *)
(* set.  The variable resp records what the last view returned and the     *)
(* provider requests it sent, so that properties of a single request can   *)
(* be written as state predicates.                                         *)
(***************************************************************************)
EXTENDS Integers, Sequences, FiniteSets, TLC

----------------------------------------------------------------------------
(* Bounds of the model *)

MaxOps == 2
MaxTime == 1
MaxId == 2

----------------------------------------------------------------------------
(* Value domains *)

Users == {"u1", "u2"}

PLATFORM_CHOICES == {"instagram", "tiktok", "youtube", "linkedin", "twitter"}

\* platform names a request may carry in its URL
ReqPlatforms == {"youtube", "twitter", "tiktok", "myspace"}
\* platform names a connect request is made for
ConnectPlatforms == ReqPlatforms \cup {"linkedin", "instagram"}

\* ids the provider reports for the authorising user
PUIDs == {"p1"}

\* token strings a provider issues; "" is the empty string
AccessTokens == {"a1"}
RefreshedTokens == {"a2"}
RefreshTokens == {"", "r1"}

\* values of the 32-character random state
States == {"s1"}

\* state values a callback request may carry: the issued one, a forged one, none
ReqStates == {"s1", "s2", "None"}

\* every platform name a session key or a lookup may carry
PlatformNames == PLATFORM_CHOICES \cup ReqPlatforms

\* request.data.get(...) of a key that is absent
None == "None"

\* null token_expires_at
NULL == -1

\* expires_in of a token response; 0 stands for an absent field
ExpiresIn == {0, 1}

\* subscriberCount reported by the channels endpoint
Metrics == {1}

VARIABLES
    now,                \* timezone.now()
    platforms,          \* table social_platforms
    accounts,           \* table user_social_accounts
    nextId,             \* next auto-increment id of user_social_accounts
    youtube_analytics,  \* table of YouTubeAnalytics rows
    linkedin_analytics, \* table of LinkedInAnalytics rows
    instagram_analytics,\* table of InstagramAnalytics rows
    session,            \* request.session of each user, keys oauth_state_<platform>
    resp,               \* the response of the last view and the provider calls it made
    refresh_failed,     \* history: ids of the accounts a token refresh has failed for
                        \* since their last successful callback
    ops,                \* number of requests served that changed the stored state
    inflight            \* the requests being served concurrently, each with the
                        \* account object it loaded (SpecConcurrent)

vars == <<now, platforms, accounts, nextId, youtube_analytics, linkedin_analytics,
          instagram_analytics, session, resp, refresh_failed, ops, inflight>>

\* no request is being served concurrently
NoRequests == <<>>

----------------------------------------------------------------------------
(* Platform registry *)

SocialPlatform(name, active, id, secret) ==
    [name |-> name, is_active |-> active, oauth_client_id |-> id, oauth_client_secret |-> secret]

\* a deployment: populate_platforms seeds the five rows with empty credentials, the
\* operator provisions some and switches some off
Registry ==
    { SocialPlatform("youtube", TRUE, "cid", "sec"),
      SocialPlatform("linkedin", TRUE, "cid", ""),
      SocialPlatform("instagram", TRUE, "", "sec"),
      SocialPlatform("twitter", FALSE, "cid", "sec"),
      SocialPlatform("tiktok", TRUE, "", "") }

\* a lookup by name alone
ActivePlatform_ByName(platform_name) ==
    {p \in platforms : p.name = platform_name}

\* SocialPlatform.objects.get(name=platform_name, is_active=True): the set of matches
ActivePlatform(platform_name) ==
    {p \in platforms : p.name = platform_name /\ p.is_active}

\* a credentials check that looks at the client id alone
OAuthConfigured_IdOnly(platform) ==
    platform.oauth_client_id # ""

\* initiate_oauth: "if not platform.oauth_client_id or not platform.oauth_client_secret"
\* is the negation of this
OAuthConfigured(platform) ==
    platform.oauth_client_id # "" /\ platform.oauth_client_secret # ""

----------------------------------------------------------------------------
(* UserSocialAccount *)

is_token_expired(account, t) ==
    IF account.token_expires_at = NULL THEN FALSE
    ELSE t >= account.token_expires_at

\* UserSocialAccount.decrypt_token: tokens are stored in plaintext
decrypt_token(encrypted_token) ==
    IF encrypted_token = "" THEN "" ELSE encrypted_token

\* UserSocialAccount.save(): the row as it is written
save(account, t) ==
    IF is_token_expired(account, t) /\ account.status = "connected"
    THEN [account EXCEPT !.status = "expired"]
    ELSE account

\* the table after account.save() of an in-memory object
Written(table, account, t) ==
    {a \in table : a.id # account.id} \cup {save(account, t)}

\* a lookup by id alone, without the ownership filter
OwnedAccount_AnyUser(account_id, user) ==
    {a \in accounts : a.id = account_id}

\* UserSocialAccount.objects.get(id=account_id, user=request.user): the set of matches
OwnedAccount(account_id, user) ==
    {a \in accounts : a.id = account_id /\ a.user = user}

\* UserSocialAccountSerializer(account).data, the fields the model carries
UserSocialAccountSerializer(account, t) ==
    [id |-> account.id, platform |-> account.platform,
     platform_user_id |-> account.platform_user_id,
     status |-> account.status, is_expired |-> is_token_expired(account, t)]

----------------------------------------------------------------------------
(* Provider responses.  status 0 stands for requests raising before any    *)
(* response arrived (connection error, timeout).                           *)

\* GET youtube/v3/channels: items = 0 stands for an empty items list, items = -1 for
\* a body that is not the JSON the code reads (response.json() or int() raises)
ChannelResponses ==
    {[status |-> 200, items |-> m] : m \in Metrics \cup {0, -1}}
    \cup {[status |-> s, items |-> 0] : s \in {401, 500, 0}}

\* POST https://oauth2.googleapis.com/token with grant_type=refresh_token
RefreshResponses ==
    {[status |-> 200, access_token |-> a, expires_in |-> e] :
        a \in RefreshedTokens, e \in ExpiresIn}
    \cup {[status |-> s, access_token |-> "", expires_in |-> 0] : s \in {200, 400, 0}}

NoChannelResponse == [status |-> -1, items |-> 0]
NoRefreshResponse == [status |-> -1, access_token |-> "", expires_in |-> 0]

\* what the provider answers to the requests of one fetch_channel_analytics, in the
\* order they are sent; a request that is not sent consumes nothing
YouTubeEnvs ==
    {[first |-> r, refresh |-> NoRefreshResponse, retry |-> NoChannelResponse] :
        r \in {c \in ChannelResponses : c.status # 401}}
    \cup {[first |-> r, refresh |-> f, retry |-> NoChannelResponse] :
        r \in {c \in ChannelResponses : c.status = 401},
        f \in {x \in RefreshResponses : ~(x.status = 200 /\ x.access_token # "")}}
    \cup {[first |-> r, refresh |-> f, retry |-> y] :
        r \in {c \in ChannelResponses : c.status = 401},
        f \in {x \in RefreshResponses : x.status = 200 /\ x.access_token # ""},
        y \in ChannelResponses}

\* a provider request as recorded in resp.calls: the endpoint, the credential sent
\* (access token, refresh token or code) and what the provider answered
Call(kind, token, response) == [kind |-> kind, token |-> token, response |-> response]

----------------------------------------------------------------------------
(* YouTubeAnalyticsService *)

\* a refresh that returns the granted token without storing it on the account
refresh_access_token_NotStored(account, refresh_token, r, t) ==
    IF r.status = 200 /\ r.access_token # ""
    THEN [account |-> account, saved |-> FALSE, token |-> r.access_token]
    ELSE [account |-> account, saved |-> FALSE, token |-> ""]

\* returns the in-memory account, whether account.save() ran, and the returned token
refresh_access_token(account, refresh_token, r, t) ==
    IF r.status = 200 /\ r.access_token # ""
    THEN LET a1 == [account EXCEPT !.access_token = r.access_token]
             a2 == IF r.expires_in # 0
                   THEN [a1 EXCEPT !.token_expires_at = t + r.expires_in]
                   ELSE a1
         IN  [account |-> save(a2, t), saved |-> TRUE, token |-> r.access_token]
    ELSE [account |-> account, saved |-> FALSE, token |-> ""]

\* the except-branch of fetch_channel_analytics for a RequestException e:
\* "hasattr(e, 'response') and e.response and e.response.status_code == 401".
\* e.response is None when no response arrived; a requests.Response is truthy
\* exactly when its status is below 400 (Response.__bool__ returns Response.ok).
MarksExpired(response) ==
    /\ response.status # 0
    /\ response.status < 400
    /\ response.status = 401

\* one outcome record of a fetcher: the in-memory account afterwards, whether the
\* account row was written, the analytics row written (NoData: none), the returned
\* value (None or "data") and the provider requests sent
NoData == [written |-> FALSE]
Outcome(account, saved, data, result, calls) ==
    [account |-> account, saved |-> saved, data |-> data, result |-> result, calls |-> calls]

\* a fetch without the "except Exception" handler: a payload it cannot read raises
FinishChannelFetch_Unhandled(account, saved, response, calls, t) ==
    IF response.status = 0 \/ response.status >= 400
    THEN Outcome(account, saved, NoData, None, calls)
    ELSE IF response.items < 0
    THEN Outcome(account, saved, NoData, "raised", calls)
    ELSE IF response.items = 0
    THEN Outcome(account, saved, NoData, None, calls)
    ELSE Outcome(account, saved, [written |-> TRUE, subscriber_count |-> response.items],
                 "data", calls)

\* lines 84-129: raise_for_status, parsing, the analytics upsert and the handlers
FinishChannelFetch(account, saved, response, calls, t) ==
    IF response.status = 0 \/ response.status >= 400
    THEN IF MarksExpired(response)
         THEN Outcome(save([account EXCEPT !.status = "expired"], t), TRUE, NoData, None, calls)
         ELSE Outcome(account, saved, NoData, None, calls)
    ELSE IF response.items <= 0
    THEN Outcome(account, saved, NoData, None, calls)
    ELSE Outcome(account, saved, [written |-> TRUE, subscriber_count |-> response.items],
                 "data", calls)

fetch_channel_analytics(account, env, t) ==
    IF account.platform # "youtube" THEN Outcome(account, FALSE, NoData, None, <<>>)
    ELSE IF decrypt_token(account.access_token) = ""
    THEN Outcome(account, FALSE, NoData, None, <<>>)
    ELSE LET access_token == decrypt_token(account.access_token)
             refresh_token == decrypt_token(account.refresh_token)
             c1 == <<Call("channels", access_token, env.first)>>
         IN  IF env.first.status = 401
             THEN IF refresh_token # ""
                  THEN LET r  == refresh_access_token(account, refresh_token,
                                                      env.refresh, t)
                           c2 == Append(c1, Call("refresh", refresh_token,
                                                 env.refresh))
                       IN  IF r.token # ""
                           THEN FinishChannelFetch(r.account, r.saved, env.retry,
                                    Append(c2, Call("channels", r.token, env.retry)), t)
                           ELSE Outcome(r.account, r.saved, NoData, None, c2)
                  ELSE Outcome(account, FALSE, NoData, None, c1)
             ELSE FinishChannelFetch(account, FALSE, env.first, c1, t)

----------------------------------------------------------------------------------------------------------------------------------------
(* LinkedInAnalyticsService *)

\* what one sub-request of the LinkedIn / Instagram fetchers is answered: n is the
\* count the payload carries (organizations, posts, followers, media); n = -1 stands
\* for a body that is not the JSON the code reads (response.json() raises)
SubResponses ==
    {[status |-> 200, n |-> k] : k \in {-1, 0, 1, 2}}
    \cup {[status |-> s, n |-> 0] : s \in {401, 0}}

NoSubResponse == [status |-> -1, n |-> 0]

\* the subjects the userinfo endpoint may report
LinkedInSubs == {"p1", "p2"}

\* GET v2/userinfo: sub = "" is a body without the sub key, sub = None a body
\* that is empty or not JSON
ProfileResponses ==
    {[status |-> 200, sub |-> p] : p \in LinkedInSubs \cup {"", None}}
    \cup {[status |-> s, sub |-> None] : s \in {401, 0}}

LinkedInEnvs == [profile : ProfileResponses, orgs : SubResponses, posts : SubResponses]

\* _fetch_profile_info: whether a non-empty profile was returned
fetch_profile_info(r) == r.status = 200 /\ r.sub # None

\* _fetch_organizations: the number of organizations returned ([] on any failure)
fetch_organizations(r) == IF r.status = 200 /\ r.n > 0 THEN r.n ELSE 0

\* _fetch_user_posts: total_count ({'posts': [], 'total_count': 0} on any failure)
fetch_user_posts(account, r) ==
    IF account.platform_user_id = "" THEN 0
    ELSE IF r.status = 200 /\ r.n > 0 THEN r.n ELSE 0

\* account.save() of a row whose (user, platform, platform_user_id) another row
\* already has: unique_together makes the UPDATE raise IntegrityError
ViolatesUnique(account) ==
    \E a \in accounts : /\ a.id # account.id
                        /\ a.user = account.user
                        /\ a.platform = account.platform
                        /\ a.platform_user_id = account.platform_user_id

\* a fetch that gives up at the first sub-fetch that fails
LinkedIn_fetch_account_analytics_Dependent(account, env, t) ==
    IF account.platform # "linkedin" THEN Outcome(account, FALSE, NoData, None, <<>>)
    ELSE IF decrypt_token(account.access_token) = ""
    THEN Outcome(account, FALSE, NoData, None, <<>>)
    ELSE LET access_token == decrypt_token(account.access_token)
             c1 == <<Call("userinfo", access_token, env.profile)>>
             c2 == Append(c1, Call("organizationAcls", access_token, env.orgs))
             c3 == Append(c2, Call("ugcPosts", access_token, env.posts))
             a1 == IF env.profile.sub \notin {"", None}
                   THEN [account EXCEPT !.platform_user_id = env.profile.sub]
                   ELSE account
         IN  IF ~fetch_profile_info(env.profile) \/ ViolatesUnique(a1)
             THEN Outcome(account, FALSE, NoData, None, c1)
             ELSE IF env.orgs.status # 200 \/ env.orgs.n < 0
             THEN Outcome(save(a1, t), TRUE, NoData, None, c2)
             ELSE IF env.posts.status # 200 \/ env.posts.n < 0
             THEN Outcome(save(a1, t), TRUE, NoData, None, c3)
             ELSE Outcome(save(a1, t), TRUE,
                          [written |-> TRUE,
                           total_organizations |-> fetch_organizations(env.orgs),
                           post_count |-> fetch_user_posts(a1, env.posts)],
                          "data", c3)

LinkedIn_fetch_account_analytics(account, env, t) ==
    IF account.platform # "linkedin" THEN Outcome(account, FALSE, NoData, None, <<>>)
    ELSE IF decrypt_token(account.access_token) = ""
    THEN Outcome(account, FALSE, NoData, None, <<>>)
    ELSE LET access_token == decrypt_token(account.access_token)
             c1 == <<Call("userinfo", access_token, env.profile)>>
             found == fetch_profile_info(env.profile)
             a1 == IF found /\ env.profile.sub # ""
                   THEN [account EXCEPT !.platform_user_id = env.profile.sub]
                   ELSE account
             c2 == Append(c1, Call("organizationAcls", access_token, env.orgs))
             c3 == IF a1.platform_user_id = "" THEN c2
                   ELSE Append(c2, Call("ugcPosts", access_token, env.posts))
         IN  IF found /\ ViolatesUnique(a1)
             \* IntegrityError from account.save(): the outer handler returns None
             THEN Outcome(a1, FALSE, NoData, None, c1)
             ELSE Outcome(IF found THEN save(a1, t) ELSE a1, found,
                          [written |-> TRUE,
                           total_organizations |-> fetch_organizations(env.orgs),
                           post_count |-> fetch_user_posts(a1, env.posts)],
                          "data", c3)

----------------------------------------------------------------------------
(* InstagramAnalyticsService *)

\* GET me/accounts: n = 1 is a page list with an instagram_business_account
PagesResponses == {r \in SubResponses : r.n # 2}

\* the answers to: me/accounts and the account details of _fetch_account_info,
\* me/accounts and the media list of _fetch_user_media
InstagramEnvs ==
    [pages : PagesResponses, details : SubResponses,
     media_pages : PagesResponses, media : SubResponses]

\* whether a me/accounts answer yields the id of an Instagram business account
BusinessAccount(r) == r.status = 200 /\ r.n = 1

\* _fetch_account_info: found is FALSE for None; followers is followers_count
fetch_account_info(env) ==
    IF BusinessAccount(env.pages) /\ env.details.status = 200 /\ env.details.n >= 0
    THEN [found |-> TRUE, followers |-> env.details.n]
    ELSE [found |-> FALSE, followers |-> 0]

\* _fetch_user_media: the number of media items returned, each with one like
fetch_user_media(env) ==
    IF BusinessAccount(env.media_pages) /\ env.media.status = 200 /\ env.media.n > 0
    THEN env.media.n
    ELSE 0

\* lines 618-625: the engagement rate in percent as the exact fraction num / den;
\* it stays 0 when no media was fetched or follower_count is 0
engagement_rate(total_likes, total_comments, follower_count, media_len) ==
    IF media_len > 0 /\ follower_count > 0
    THEN [num |-> 100 * (total_likes + total_comments), den |-> follower_count * media_len]
    ELSE [num |-> 0, den |-> 1]

\* engagement_rate = DecimalField(max_digits=5, decimal_places=2): the values, in
\* hundredths, the column may hold for the fraction v.  The value is rounded to two
\* decimals (a tie goes either way: the float is rounded half-even to five
\* significant digits, the column rounds half away from zero); a value of 1000 or
\* more does not fit and the write raises (the empty set)
DecimalField(v) ==
    LET q == (100 * v.num) \div v.den
        r == (100 * v.num) % v.den
        rounded == IF 2 * r < v.den THEN {q}
                   ELSE IF 2 * r > v.den THEN {q + 1}
                   ELSE {q, q + 1}
    IN  {h \in rounded : h < 100000}

Instagram_fetch_account_analytics(account, env, t) ==
    IF account.platform # "instagram" THEN Outcome(account, FALSE, NoData, None, <<>>)
    ELSE IF decrypt_token(account.access_token) = ""
    THEN Outcome(account, FALSE, NoData, None, <<>>)
    ELSE LET access_token == decrypt_token(account.access_token)
             c1 == <<Call("me/accounts", access_token, env.pages)>>
             c2 == IF BusinessAccount(env.pages)
                   THEN Append(c1, Call("details", access_token, env.details))
                   ELSE c1
             c3 == Append(c2, Call("me/accounts", access_token, env.media_pages))
             c4 == IF BusinessAccount(env.media_pages)
                   THEN Append(c3, Call("media", access_token, env.media))
                   ELSE c3
             info == fetch_account_info(env)
             media == fetch_user_media(env)
             rate == DecimalField(engagement_rate(media, 0, info.followers, media))
         IN  IF rate = {}
             \* the analytics save raises: the outer handler returns None
             THEN Outcome(account, FALSE, NoData, None, c4)
             ELSE Outcome(account, FALSE,
                          [written |-> TRUE,
                           follower_count |-> info.followers,
                           total_likes |-> media,
                           engagement_rate |-> CHOOSE h \in rate : \A k \in rate : k <= h],
                          "data", c4)

----------------
(* SocialAnalyticsService *)

PLATFORM_SERVICES == {"youtube", "instagram", "linkedin"}

NoEnv == [none |-> TRUE]

\* the provider's answers to the requests one update_account_analytics may send
FetchEnvs(platform) ==
    CASE platform = "youtube" -> YouTubeEnvs
      [] platform = "linkedin" -> LinkedInEnvs
      [] platform = "instagram" -> InstagramEnvs
      [] OTHER -> {NoEnv}

update_account_analytics(account, env, t) ==
    IF account.platform \in PLATFORM_SERVICES
    THEN CASE account.platform = "youtube" -> fetch_channel_analytics(account, env, t)
           [] account.platform = "linkedin" -> LinkedIn_fetch_account_analytics(account, env, t)
           [] account.platform = "instagram" -> Instagram_fetch_account_analytics(account, env, t)
    ELSE Outcome(account, FALSE, NoData, None, <<>>)

\* the analytics table of a platform after the get_or_create / setattr / save of a fetch:
\* one row per account (OneToOneField), overwritten in place
Upsert(table, account_id, data) ==
    IF data.written
    THEN {r \in table : r.account # account_id} \cup {[account |-> account_id, data |-> data]}
    ELSE table

\* an account deletion that leaves the analytics rows in place
Cascade_Kept(table, account_id) == table

\* on_delete=CASCADE of the analytics rows of an account
Cascade(table, account_id) == {r \in table : r.account # account_id}

----------------------------------------------------------------------------
(* Views *)

\* what a view returned: resp.calls are the provider requests the view sent, in order
Response(op, user, platform, account_id, http, result, calls, body) ==
    [op |-> op, user |-> user, platform |-> platform, account_id |-> account_id,
     http |-> http, result |-> result, calls |-> calls, body |-> body]

\* the state a callback carried and the one it read from the session (lines 161, 169)
CallbackStates(state, stored_state) == [state |-> state, stored_state |-> stored_state]

NoBody == [empty |-> TRUE]

\* no request is being served
Idle == Response("none", "", "", 0, 0, None, <<>>, NoBody)

\* the stored state: the tables and the sessions
stored == <<accounts, nextId, youtube_analytics, linkedin_analytics, instagram_analytics,
            session>>

\* ops counts the requests that changed the stored state; MaxOps bounds them
Served ==
    /\ stored' # stored => ops < MaxOps
    /\ ops' = IF stored' # stored THEN ops + 1 ELSE ops

\* a view that answers r and writes nothing
Reply(r) ==
    /\ resp' = r
    /\ ops' = ops
    /\ UNCHANGED <<now, platforms, accounts, nextId, youtube_analytics,
                   linkedin_analytics, instagram_analytics, session, refresh_failed, inflight>>

\* a fetch whose last provider request is the token refresh got no token from it
RefreshFailed(calls) == Len(calls) > 0 /\ calls[Len(calls)].kind = "refresh"

\* a fetch whose failure undoes the writes of the request that ran it
AfterFetch_RolledBack(base, failed, o, t) ==
    /\ accounts' = IF o.result = None THEN accounts
                   ELSE IF o.saved THEN Written(base, o.account, t) ELSE base
    /\ refresh_failed' = IF RefreshFailed(o.calls) THEN failed \cup {o.account.id} ELSE failed
    /\ youtube_analytics' = IF o.account.platform = "youtube"
                            THEN Upsert(youtube_analytics, o.account.id, o.data)
                            ELSE youtube_analytics
    /\ linkedin_analytics' = IF o.account.platform = "linkedin"
                             THEN Upsert(linkedin_analytics, o.account.id, o.data)
                             ELSE linkedin_analytics
    /\ instagram_analytics' = IF o.account.platform = "instagram"
                              THEN Upsert(instagram_analytics, o.account.id, o.data)
                              ELSE instagram_analytics

\* the tables after a fetch for the in-memory account o.account; base is the account
\* table when the fetch starts, failed the refresh failures recorded when it starts
AfterFetch(base, failed, o, t) ==
    /\ accounts' = IF o.saved THEN Written(base, o.account, t) ELSE base
    /\ refresh_failed' = IF RefreshFailed(o.calls) THEN failed \cup {o.account.id} ELSE failed
    /\ youtube_analytics' = IF o.account.platform = "youtube"
                            THEN Upsert(youtube_analytics, o.account.id, o.data)
                            ELSE youtube_analytics
    /\ linkedin_analytics' = IF o.account.platform = "linkedin"
                             THEN Upsert(linkedin_analytics, o.account.id, o.data)
                             ELSE linkedin_analytics
    /\ instagram_analytics' = IF o.account.platform = "instagram"
                              THEN Upsert(instagram_analytics, o.account.id, o.data)
                              ELSE instagram_analytics

\* get_analytics_for_account: the analytics row of the account, or the placeholder
get_analytics_for_account(account, yt, li, ig) ==
    LET table == CASE account.platform = "youtube" -> yt
                   [] account.platform = "linkedin" -> li
                   [] account.platform = "instagram" -> ig
                   [] OTHER -> {}
        rows == {r \in table : r.account = account.id}
    IN  IF rows = {}
        THEN [account_id |-> account.id, available |-> FALSE, data |-> NoData]
        ELSE [account_id |-> account.id, available |-> TRUE,
              data |-> (CHOOSE r \in rows : TRUE).data]

get_user_connected_accounts(user) ==
    /\ resp = Idle
    /\ Reply(Response("accounts", user, "", 0, 200, None, <<>>,
                      {UserSocialAccountSerializer(a, now) :
                          a \in {x \in accounts : x.user = user}}))

\* the oauth_scope populate_platforms seeds, as the sequence of its words and of the
\* characters between and inside them that URL encoding changes
oauth_scope(platform_name) ==
    CASE platform_name = "instagram" -> <<"user_profile", ",", "user_media">>
      [] platform_name = "youtube" ->
           <<"https", ":", "/", "/", "www.googleapis.com", "/", "auth", "/",
             "youtube.readonly", " ",
             "https", ":", "/", "/", "www.googleapis.com", "/", "auth", "/",
             "youtube.upload">>
      [] platform_name = "linkedin" ->
           <<"openid", " ", "profile", " ", "email", " ", "w_member_social", " ",
             "r_organization_social">>
      [] platform_name = "twitter" ->
           <<"tweet.read", " ", "tweet.write", " ", "users.read", " ", "offline.access">>
      [] platform_name = "tiktok" ->
           <<"user.info.basic", " ", "video.list", " ", "video.upload">>
      [] OTHER -> <<>>

\* f"{settings.FRONTEND_URL}/auth/callback/{platform_name}"
redirect_uri(platform_name) ==
    <<"https", ":", "/", "/", "frontend", "/", "auth", "/", "callback", "/", platform_name>>

\* an encoding that stops at the first character it would have to escape
urlencode_Truncated(value) ==
    IF \E i \in 1..Len(value) : value[i] \in {" ", ",", ":", "/"}
    THEN SubSeq(value, 1, (CHOOSE i \in 1..Len(value) :
                              /\ value[i] \in {" ", ",", ":", "/"}
                              /\ \A j \in 1..(i - 1) : value[j] \notin {" ", ",", ":", "/"}) - 1)
    ELSE value

\* urllib.parse.urlencode of one parameter value (quote_plus)
urlencode(value) ==
    [i \in 1..Len(value) |->
        CASE value[i] = " " -> "+"
          [] value[i] = "," -> "%2C"
          [] value[i] = ":" -> "%3A"
          [] value[i] = "/" -> "%2F"
          [] OTHER -> value[i]]

\* lines 120-148: the query parameters of the authorization URL; the LinkedIn URL is
\* built by an f-string that inserts redirect_uri and scope as they are
authorization_url(platform, platform_name, state) ==
    IF platform_name = "linkedin"
    THEN [client_id |-> platform.oauth_client_id,
          redirect_uri |-> redirect_uri(platform_name),
          scope |-> oauth_scope(platform_name),
          state |-> state,
          response_type |-> "code",
          access_type |-> None,
          prompt |-> None]
    ELSE [client_id |-> platform.oauth_client_id,
          redirect_uri |-> urlencode(redirect_uri(platform_name)),
          scope |-> urlencode(oauth_scope(platform_name)),
          state |-> state,
          response_type |-> "code",
          access_type |-> IF platform_name = "youtube" THEN "offline" ELSE None,
          prompt |-> IF platform_name = "youtube" THEN "consent" ELSE None]

initiate_oauth(user, platform_name) ==
    /\ resp = Idle
    /\ IF ActivePlatform(platform_name) = {}
       THEN Reply(Response("connect", user, platform_name, 0, 404, None, <<>>, NoBody))
       ELSE LET platform == CHOOSE p \in ActivePlatform(platform_name) : TRUE
            IN  IF ~OAuthConfigured(platform)
                THEN Reply(Response("connect", user, platform_name, 0, 503, None, <<>>,
                                    [setup_required |-> TRUE]))
                ELSE \E state \in States :
                        /\ session' = [session EXCEPT ![user][platform_name] = state]
                        /\ resp' = Response("connect", user, platform_name, 0, 200, None, <<>>,
                                     [authorization_url |->
                                        authorization_url(platform, platform_name, state),
                                      state |-> state])
                        /\ UNCHANGED <<now, platforms, accounts, nextId, youtube_analytics,
                                       linkedin_analytics, instagram_analytics,
                                       refresh_failed, inflight>>
                        /\ Served

\* POST platform.oauth_token_url with grant_type=authorization_code
TokenResponses ==
    {[status |-> 200, access_token |-> a, refresh_token |-> r] :
        a \in AccessTokens, r \in RefreshTokens}
    \cup {[status |-> 200, access_token |-> "", refresh_token |-> ""]}
    \cup {[status |-> s, access_token |-> "", refresh_token |-> ""] : s \in {400, 0}}

\* the user-info endpoint of a platform; id "" is a payload without an id (for
\* youtube: an empty items list)
UserInfoResponses ==
    {[status |-> 200, id |-> p] : p \in PUIDs \cup {""}}
    \cup {[status |-> 401, id |-> p] : p \in PUIDs \cup {""}}
    \cup {[status |-> 0, id |-> ""]}

NoUserInfoResponse == [status |-> -1, id |-> ""]

\* platforms get_platform_user_info sends a request for
UserInfoPlatforms == {"instagram", "youtube", "linkedin", "twitter"}

UserInfoEnvs(platform_name) ==
    IF platform_name \in UserInfoPlatforms THEN UserInfoResponses ELSE {NoUserInfoResponse}

\* a user-info lookup that reads the payload whatever the status code
get_platform_user_info_Unchecked(platform_name, r) ==
    IF platform_name \notin UserInfoPlatforms
    THEN [called |-> FALSE, found |-> FALSE, id |-> ""]
    ELSE [called |-> TRUE, found |-> TRUE, id |-> r.id]

\* get_platform_user_info: found is FALSE for a None result
get_platform_user_info(platform_name, r) ==
    IF platform_name \notin UserInfoPlatforms
    THEN [called |-> FALSE, found |-> FALSE, id |-> ""]
    ELSE IF r.status # 200
    THEN [called |-> TRUE, found |-> FALSE, id |-> ""]
    ELSE IF platform_name = "youtube" /\ r.id = ""
    THEN [called |-> TRUE, found |-> FALSE, id |-> ""]
    ELSE [called |-> TRUE, found |-> TRUE, id |-> r.id]

\* UserSocialAccount.objects.update_or_create(user, platform, platform_user_id, defaults)
update_or_create(table, id, user, platform_name, platform_user_id, access_token, refresh_token, t) ==
    LET match == {a \in table : /\ a.user = user
                                 /\ a.platform = platform_name
                                 /\ a.platform_user_id = platform_user_id}
    IN  IF match # {}
        THEN LET a == CHOOSE x \in match : TRUE
             IN  [account |-> save([a EXCEPT !.access_token = access_token,
                                             !.refresh_token = refresh_token,
                                             !.status = "connected"], t),
                  created |-> FALSE]
        ELSE [account |-> save([id |-> id, user |-> user, platform |-> platform_name,
                                platform_user_id |-> platform_user_id,
                                access_token |-> access_token,
                                refresh_token |-> refresh_token,
                                token_expires_at |-> NULL,
                                status |-> "connected"], t),
              created |-> TRUE]

handle_oauth_callback(user, platform_name, code, state) ==
    /\ resp = Idle
    /\ LET req == CallbackStates(state, session[user][platform_name])
           Error(http, calls) ==
               Reply(Response("callback", user, platform_name, 0, http, None, calls,
                              [success |-> FALSE, code |-> code, req |-> req]))
       IN
       IF code = "" THEN Error(400, <<>>)
       ELSE IF ActivePlatform(platform_name) = {} THEN Error(404, <<>>)
       ELSE \E tr \in TokenResponses :
            LET c1 == <<Call("token", code, tr)>>
            IN
            IF tr.status # 200 THEN Error(400, c1)
            ELSE IF tr.access_token = "" THEN Error(400, c1)
            ELSE \E ur \in UserInfoEnvs(platform_name) :
                 LET user_info == get_platform_user_info(platform_name, ur)
                     c2 == IF user_info.called
                           THEN Append(c1, Call("userinfo", tr.access_token, ur))
                           ELSE c1
                 IN
                 IF ~user_info.found THEN Error(400, c2)
                 \* platform_user_id=None violates NOT NULL: caught by "except Exception"
                 ELSE IF user_info.id = "" THEN Error(500, c2)
                 ELSE LET uc == update_or_create(accounts, nextId, user, platform_name,
                                     user_info.id, tr.access_token, tr.refresh_token, now)
                          base == {a \in accounts : a.id # uc.account.id} \cup {uc.account}
                      IN
                      /\ uc.created => nextId <= MaxId
                      /\ \E env \in FetchEnvs(platform_name) :
                            LET o == update_account_analytics(uc.account, env, now)
                            IN  /\ AfterFetch(base, refresh_failed \ {uc.account.id}, o, now)
                                /\ resp' = Response("callback", user, platform_name,
                                             o.account.id, 200, o.result, c2 \o o.calls,
                                             [success |-> TRUE, code |-> code, req |-> req,
                                              account |-> UserSocialAccountSerializer(o.account, now),
                                              created |-> uc.created])
                      /\ nextId' = IF uc.created THEN nextId + 1 ELSE nextId
                      /\ session' = [session EXCEPT ![user][platform_name] = None]
                      /\ UNCHANGED <<now, platforms, inflight>>
                      /\ Served

disconnect_account(user, account_id) ==
    /\ resp = Idle
    /\ IF OwnedAccount(account_id, user) = {}
       THEN Reply(Response("disconnect", user, "", account_id, 404, None, <<>>, NoBody))
       ELSE /\ accounts' = {a \in accounts : a.id # account_id}
            /\ youtube_analytics' = Cascade(youtube_analytics, account_id)
            /\ linkedin_analytics' = Cascade(linkedin_analytics, account_id)
            /\ instagram_analytics' = Cascade(instagram_analytics, account_id)
            /\ refresh_failed' = refresh_failed \ {account_id}
            /\ resp' = Response("disconnect", user, "", account_id, 200, None, <<>>, NoBody)
            /\ UNCHANGED <<now, platforms, nextId, session, inflight>>
            /\ Served

\* the status of the response of a view that ran a fetch: refresh_account_analytics
\* answers 400 when the fetch returned None, the other views answer 200; an exception
\* that escaped the fetch would reach the view's outer handler, which answers 500
FetchHttp(op, result) ==
    IF result = "raised" THEN 500
    ELSE IF op = "refresh" /\ result # "data" THEN 400 ELSE 200

\* the requests of a view that loads the account and runs one fetch: op names the view
FetchView(op, user, account_id) ==
    /\ resp = Idle
    /\ IF OwnedAccount(account_id, user) = {}
       THEN Reply(Response(op, user, "", account_id, 404, None, <<>>, NoBody))
       ELSE LET account == CHOOSE a \in OwnedAccount(account_id, user) : TRUE
            IN  \E env \in FetchEnvs(account.platform) :
                   LET o == update_account_analytics(account, env, now)
                   IN  /\ AfterFetch(accounts, refresh_failed, o, now)
                       /\ resp' = Response(op, user, account.platform, account_id,
                                    FetchHttp(op, o.result), o.result, o.calls,
                                    get_analytics_for_account(o.account,
                                        youtube_analytics', linkedin_analytics',
                                        instagram_analytics'))
                       /\ UNCHANGED <<now, platforms, nextId, session, inflight>>
                       /\ Served

\* GET analytics/<account_id>/
get_account_analytics(user, account_id) ==
    FetchView("analytics", user, account_id)

\* GET analytics/: the stored analytics of the accounts whose stored status is connected
get_all_analytics(user) ==
    /\ resp = Idle
    /\ Reply(Response("analytics_list", user, "", 0, 200, None, <<>>,
                      {get_analytics_for_account(a, youtube_analytics, linkedin_analytics,
                                                 instagram_analytics) :
                          a \in {x \in accounts : x.user = user /\ x.status = "connected"}}))

\* POST analytics/<account_id>/refresh/
refresh_account_analytics(user, account_id) ==
    FetchView("refresh", user, account_id)

\* GET analytics/<account_id>/detailed/
get_detailed_analytics(user, account_id) ==
    FetchView("detailed", user, account_id)

\* GET debug/<account_id>/
debug_account(user, account_id) ==
    /\ resp = Idle
    /\ IF OwnedAccount(account_id, user) = {}
       THEN Reply(Response("debug", user, "", account_id, 404, None, <<>>, NoBody))
       ELSE LET account == CHOOSE a \in OwnedAccount(account_id, user) : TRUE
            IN  \E r \in {200, 401, 0} :
                   Reply(Response("debug", user, account.platform, account_id, 200, None,
                            IF account.platform = "youtube" /\ account.access_token # ""
                            THEN <<Call("channels", account.access_token,
                                        [status |-> r, items |-> 0])>>
                            ELSE <<>>,
                            [status |-> account.status,
                             is_token_expired |-> is_token_expired(account, now)]))

\* the response is sent; the next request can be served
Deliver ==
    /\ resp # Idle
    /\ resp' = Idle
    /\ UNCHANGED <<now, platforms, accounts, nextId, youtube_analytics, linkedin_analytics,
                   instagram_analytics, session, refresh_failed, ops, inflight>>

\* time passes between two requests
Tick ==
    /\ now < MaxTime
    /\ resp = Idle
    /\ now' = now + 1
    /\ UNCHANGED <<platforms, accounts, nextId, youtube_analytics, linkedin_analytics,
                   instagram_analytics, session, resp, refresh_failed, ops, inflight>>

----------------------------------------------------------------------------

Init ==
    /\ now = 0
    /\ platforms = Registry
    /\ accounts = {}
    /\ nextId = 1
    /\ youtube_analytics = {}
    /\ linkedin_analytics = {}
    /\ instagram_analytics = {}
    /\ session = [u \in Users |-> [p \in PlatformNames |-> None]]
    /\ resp = Idle
    /\ refresh_failed = {}
    /\ ops = 0
    /\ inflight = NoRequests

AccountIds == 1..MaxId

Next ==
    \/ \E u \in Users : get_user_connected_accounts(u)
    \/ \E u \in Users, p \in ConnectPlatforms : initiate_oauth(u, p)
    \/ \E u \in Users, p \in ReqPlatforms, code \in {"", "code"}, state \in ReqStates :
          handle_oauth_callback(u, p, code, state)
    \/ \E u \in Users, id \in AccountIds : disconnect_account(u, id)
    \/ \E u \in Users, id \in AccountIds : get_account_analytics(u, id)
    \/ \E u \in Users : get_all_analytics(u)
    \/ \E u \in Users, id \in AccountIds : refresh_account_analytics(u, id)
    \/ \E u \in Users, id \in AccountIds : get_detailed_analytics(u, id)
    \/ \E u \in Users, id \in AccountIds : debug_account(u, id)
    \/ Deliver
    \/ Tick

Spec == Init /\ [][Next]_vars

----------------------------------------------------------------------------
(* Fetches on a stored account.  The account table holds one YouTube row   *)
(* in a state earlier requests leave it in (connected without expiry,      *)
(* connected with an expiry ahead or reached, expired by a save after the  *)
(* expiry); the analytics views run on it.                                 *)

\* (status, token_expires_at) of a stored row at time 1
StoredStatus ==
    { [status |-> "connected", token_expires_at |-> NULL],
      [status |-> "connected", token_expires_at |-> 2],
      [status |-> "connected", token_expires_at |-> 1],
      [status |-> "expired", token_expires_at |-> 1] }

StoredAccounts ==
    { [id |-> 1, user |-> u, platform |-> "youtube", platform_user_id |-> p,
       access_token |-> a, refresh_token |-> r,
       token_expires_at |-> x.token_expires_at, status |-> x.status] :
         u \in Users, p \in PUIDs, a \in AccessTokens, r \in RefreshTokens,
         x \in StoredStatus }

InitStored ==
    /\ now = 1
    /\ platforms = Registry
    /\ accounts \in {{a} : a \in StoredAccounts}
    /\ nextId = 2
    /\ youtube_analytics = {}
    /\ linkedin_analytics = {}
    /\ instagram_analytics = {}
    /\ session = [u \in Users |-> [p \in PlatformNames |-> None]]
    /\ resp = Idle
    /\ refresh_failed = {}
    /\ ops = 0
    /\ inflight = NoRequests

NextStored ==
    \/ \E u \in Users, id \in AccountIds : get_account_analytics(u, id)
    \/ \E u \in Users, id \in AccountIds : refresh_account_analytics(u, id)
    \/ \E u \in Users, id \in AccountIds : get_detailed_analytics(u, id)
    \/ Deliver

SpecStored == InitStored /\ [][NextStored]_vars

----------------------------------------------------------------------------
(* Fetches on a stored account of each platform with an analytics service. *)
(* The table holds one connected row of user u1; for LinkedIn it may hold  *)
(* a second row of the same user, connected under another subject; for     *)
(* YouTube the snapshot of an earlier fetch may be there.                  *)

SnapshotAccount(platform) ==
    [id |-> 1, user |-> "u1", platform |-> platform, platform_user_id |-> "p1",
     access_token |-> "a1", refresh_token |-> "", token_expires_at |-> NULL,
     status |-> "connected"]

SecondLinkedIn ==
    [id |-> 2, user |-> "u1", platform |-> "linkedin", platform_user_id |-> "p2",
     access_token |-> "a1", refresh_token |-> "", token_expires_at |-> NULL,
     status |-> "connected"]

\* the snapshot an earlier fetch of the YouTube account wrote
EarlierSnapshot == [account |-> 1, data |-> [written |-> TRUE, subscriber_count |-> 2]]

InitSnapshots ==
    /\ now = 0
    /\ platforms = Registry
    /\ accounts \in {{SnapshotAccount(p)} : p \in PLATFORM_SERVICES}
                    \cup {{SnapshotAccount("linkedin"), SecondLinkedIn}}
                    \cup {{[SnapshotAccount("youtube") EXCEPT !.refresh_token = "r1"]}}
    /\ nextId = 3
    /\ youtube_analytics \in IF \E a \in accounts : a.platform = "youtube"
                              THEN {{}, {EarlierSnapshot}}
                              ELSE {{}}
    /\ linkedin_analytics = {}
    /\ instagram_analytics = {}
    /\ session = [u \in Users |-> [p \in PlatformNames |-> None]]
    /\ resp = Idle
    /\ refresh_failed = {}
    /\ ops = 0
    /\ inflight = NoRequests

SpecSnapshots == InitSnapshots /\ [][NextStored]_vars

----------------------------------------------------------------------------
(* Two analytics requests for the same YouTube account served by two       *)
(* workers at once.  The code takes no lock and opens no transaction, so   *)
(* the workers interleave at every database access and provider request:   *)
(* the load of the row, the channels request, the POST to the token        *)
(* endpoint, account.save(), the retried channels request.                 *)

Workers == {"w1", "w2"}

\* access tokens the token endpoint grants to the two refreshes
ConcurrentTokens == {"a2", "a3"}

\* POST https://oauth2.googleapis.com/token as answered to either worker
ConcurrentRefreshResponses ==
    {[status |-> 200, access_token |-> a, expires_in |-> e] :
        a \in ConcurrentTokens, e \in ExpiresIn}
    \cup {[status |-> s, access_token |-> "", expires_in |-> 0] : s \in {200, 400, 0}}

\* the stored row both requests are for
ConcurrentAccount ==
    [id |-> 1, user |-> "u1", platform |-> "youtube", platform_user_id |-> "p1",
     access_token |-> "a1", refresh_token |-> "r1", token_expires_at |-> NULL,
     status |-> "connected"]

\* a worker that has not loaded the account yet
NoAccount == [id |-> 0]
Waiting ==
    [pc |-> "start", loaded |-> NoAccount, account |-> NoAccount,
     granted |-> NoRefreshResponse, at |-> 0]

\* refresh_access_token lines 541-551: the in-memory account after the assignments
\* and before account.save()
GrantedAccount(account, r, t) ==
    LET a1 == [account EXCEPT !.access_token = r.access_token]
    IN  IF r.expires_in # 0
        THEN [a1 EXCEPT !.token_expires_at = t + r.expires_in]
        ELSE a1

\* a save that writes the columns this worker changed since it loaded the row
StoreRow_ChangedFields(table, loaded, account, t) ==
    LET s == save(account, t)
        cur == CHOOSE a \in table : a.id = account.id
    IN  {a \in table : a.id # account.id}
        \cup {[id |-> cur.id, user |-> cur.user, platform |-> cur.platform,
               platform_user_id |-> cur.platform_user_id,
               access_token |-> IF s.access_token # loaded.access_token
                                THEN s.access_token ELSE cur.access_token,
               refresh_token |-> cur.refresh_token,
               token_expires_at |-> IF s.token_expires_at # loaded.token_expires_at
                                    THEN s.token_expires_at ELSE cur.token_expires_at,
               status |-> IF s.status # loaded.status THEN s.status ELSE cur.status]}

\* account.save() without update_fields: the UPDATE writes every column of the
\* in-memory object, whatever the row holds by now
StoreRow(table, loaded, account, t) == Written(table, account, t)

\* the analytics write of a fetch that runs beside other requests: the row refers to
\* the account by foreign key, so get_or_create raises IntegrityError (caught by the
\* fetcher's handler) when the account row is not there
WriteSnapshot(table, o) ==
    IF \E a \in accounts : a.id = o.account.id
    THEN Upsert(table, o.account.id, o.data)
    ELSE table

\* the variables no worker step changes
served == <<platforms, nextId, linkedin_analytics, instagram_analytics, session, resp, ops>>

\* UserSocialAccount.objects.get(id=account_id, user=request.user)
LoadAccount(w) ==
    /\ inflight[w].pc = "start"
    /\ \E a \in OwnedAccount(1, "u1") :
          inflight' = [inflight EXCEPT ![w] = [@ EXCEPT !.pc = "channels",
                                                         !.loaded = a,
                                                         !.account = a]]
    /\ UNCHANGED <<now, accounts, youtube_analytics, refresh_failed>>
    /\ UNCHANGED served

\* the first GET channels of fetch_channel_analytics
FirstChannels(w) ==
    /\ inflight[w].pc = "channels"
    /\ \E r \in ChannelResponses :
          IF r.status = 401 /\ decrypt_token(inflight[w].account.refresh_token) # ""
          THEN /\ inflight' = [inflight EXCEPT ![w].pc = "refresh"]
               /\ UNCHANGED youtube_analytics
          ELSE LET o == FinishChannelFetch(inflight[w].account, FALSE, r, <<>>, now)
               IN  /\ youtube_analytics' = WriteSnapshot(youtube_analytics, o)
                   /\ inflight' = [inflight EXCEPT ![w].pc = "done"]
    /\ UNCHANGED <<now, accounts, refresh_failed>>
    /\ UNCHANGED served

\* refresh_access_token up to account.save(): the POST and the assignments
RefreshPost(w) ==
    /\ inflight[w].pc = "refresh"
    /\ \E r \in ConcurrentRefreshResponses :
          IF r.status = 200 /\ r.access_token # ""
          THEN /\ inflight' = [inflight EXCEPT ![w] =
                                  [@ EXCEPT !.pc = "save",
                                            !.account = GrantedAccount(@, r, now),
                                            !.granted = r,
                                            !.at = now]]
               /\ UNCHANGED refresh_failed
          ELSE /\ inflight' = [inflight EXCEPT ![w].pc = "done"]
               /\ refresh_failed' = refresh_failed \cup {inflight[w].account.id}
    /\ UNCHANGED <<now, accounts, youtube_analytics>>
    /\ UNCHANGED served

\* account.save() of refresh_access_token
RefreshSave(w) ==
    /\ inflight[w].pc = "save"
    /\ accounts' = StoreRow(accounts, inflight[w].loaded, inflight[w].account, now)
    /\ inflight' = [inflight EXCEPT ![w] = [@ EXCEPT !.pc = "retry",
                                                      !.account = save(@, now)]]
    /\ UNCHANGED <<now, youtube_analytics, refresh_failed>>
    /\ UNCHANGED served

\* the retried GET channels with the new token, and the rest of the fetch
RetryChannels(w) ==
    /\ inflight[w].pc = "retry"
    /\ \E r \in ChannelResponses :
          LET o == FinishChannelFetch(inflight[w].account, TRUE, r, <<>>, now)
          IN  youtube_analytics' = WriteSnapshot(youtube_analytics, o)
    /\ inflight' = [inflight EXCEPT ![w].pc = "done"]
    /\ UNCHANGED <<now, accounts, refresh_failed>>
    /\ UNCHANGED served

InitConcurrent ==
    /\ now = 0
    /\ platforms = Registry
    /\ accounts = {ConcurrentAccount}
    /\ nextId = 2
    /\ youtube_analytics = {}
    /\ linkedin_analytics = {}
    /\ instagram_analytics = {}
    /\ session = [u \in Users |-> [p \in PlatformNames |-> None]]
    /\ resp = Idle
    /\ refresh_failed = {}
    /\ ops = 0
    /\ inflight = [w \in Workers |-> Waiting]

NextConcurrent ==
    \/ \E w \in Workers : LoadAccount(w)
    \/ \E w \in Workers : FirstChannels(w)
    \/ \E w \in Workers : RefreshPost(w)
    \/ \E w \in Workers : RefreshSave(w)
    \/ \E w \in Workers : RetryChannels(w)
    \/ Tick

SpecConcurrent == InitConcurrent /\ [][NextConcurrent]_vars

----------------------------------------------------------------------------
(* A deployment in which the operator has provisioned and switched on all  *)
(* five platforms: one user asks for authorization URLs, connects a first  *)
(* account and refreshes its analytics.                                    *)

ConfiguredRegistry ==
    {SocialPlatform(p, TRUE, "cid", "sec") : p \in PLATFORM_CHOICES}

InitPlatforms ==
    /\ now = 0
    /\ platforms = ConfiguredRegistry
    /\ accounts = {}
    /\ nextId = 1
    /\ youtube_analytics = {}
    /\ linkedin_analytics = {}
    /\ instagram_analytics = {}
    /\ session = [u \in Users |-> [p \in PlatformNames |-> None]]
    /\ resp = Idle
    /\ refresh_failed = {}
    /\ ops = 0
    /\ inflight = NoRequests

NextPlatforms ==
    \/ \E p \in PLATFORM_CHOICES : initiate_oauth("u1", p)
    \/ \E p \in PLATFORM_CHOICES :
          accounts = {} /\ handle_oauth_callback("u1", p, "code", "s1")
    \/ \E id \in AccountIds : refresh_account_analytics("u1", id)
    \/ Deliver

SpecPlatforms == InitPlatforms /\ [][NextPlatforms]_vars

----------------------------------------------------------------------------
(* The engagement rate of one Instagram fetch: the provider reports the    *)
(* followers of the account and a list of posts with their likes and       *)
(* comments; the fetch computes the rate and writes the snapshot.          *)

\* what the provider reports: follower_count, the number of media items, and the
\* sums of their like_count and comments_count
ReportedFollowers == {0, 1, 3, 7, 1000}
ReportedPosts == {0, 1, 5}
ReportedLikes == {0, 1, 10, 40}
ReportedComments == {0, 1, 10}

\* lines 596-643 for an account whose requests were all answered with the reported
\* numbers: the metrics are computed and the snapshot is written
StoreEngagement ==
    /\ inflight.pc = "fetch"
    /\ LET likes == IF inflight.posts > 0 THEN inflight.likes ELSE 0
           comments == IF inflight.posts > 0 THEN inflight.comments ELSE 0
           rate == DecimalField(engagement_rate(likes, comments, inflight.followers,
                                                inflight.posts))
       IN  IF rate = {}
           THEN /\ inflight' = [inflight EXCEPT !.pc = "failed"]
                /\ UNCHANGED instagram_analytics
           ELSE \E h \in rate :
                   /\ inflight' = [inflight EXCEPT !.pc = "stored"]
                   /\ instagram_analytics' =
                         Upsert(instagram_analytics, 1,
                                [written |-> TRUE,
                                 follower_count |-> inflight.followers,
                                 total_likes |-> likes,
                                 engagement_rate |-> h])
    /\ UNCHANGED <<now, platforms, accounts, nextId, youtube_analytics, linkedin_analytics,
                   session, resp, refresh_failed, ops>>

InitEngagement ==
    /\ now = 0
    /\ platforms = Registry
    /\ accounts = {SnapshotAccount("instagram")}
    /\ nextId = 2
    /\ youtube_analytics = {}
    /\ linkedin_analytics = {}
    /\ instagram_analytics = {}
    /\ session = [u \in Users |-> [p \in PlatformNames |-> None]]
    /\ resp = Idle
    /\ refresh_failed = {}
    /\ ops = 0
    /\ inflight \in [pc : {"fetch"}, followers : ReportedFollowers, posts : ReportedPosts,
                     likes : ReportedLikes, comments : ReportedComments]

NextEngagement == StoreEngagement

SpecEngagement == InitEngagement /\ [][NextEngagement]_vars

----------------------------------------------------------------------------
(* Provider requests as the two events they are: the view sends the        *)
(* request and blocks; the provider answers (a status, or a connection     *)
(* error) or never does.  No requests.get / requests.post in the code      *)
(* passes timeout=, and requests then waits without limit, so nothing but  *)
(* the provider's answer moves a blocked view on.  One analytics request   *)
(* and one callback are in flight.                                         *)

\* a view that has not started
Accepted ==
    [pc |-> "start", account |-> NoAccount, access_token |-> "", refresh_token |-> ""]

\* the rest of fetch_channel_analytics once the channels request is answered (the
\* callback then deletes its session state, which no connect request has set here)
FetchReturns(v, account, saved, r) ==
    LET o == FinishChannelFetch(account, saved, r, <<>>, now)
    IN  /\ youtube_analytics' = WriteSnapshot(youtube_analytics, o)
        /\ inflight' = [inflight EXCEPT ![v].pc = "returned"]

\* get_account_analytics: the account is loaded and the channels request is sent
SendChannels ==
    /\ inflight["analytics"].pc = "start"
    /\ \E a \in OwnedAccount(1, "u1") :
          inflight' = [inflight EXCEPT !["analytics"] =
                          [@ EXCEPT !.pc = "channels", !.account = a]]
    /\ UNCHANGED <<now, accounts, youtube_analytics, refresh_failed>>
    /\ UNCHANGED served

\* handle_oauth_callback: the code is posted to the token endpoint
SendToken ==
    /\ inflight["callback"].pc = "start"
    /\ inflight' = [inflight EXCEPT !["callback"].pc = "token"]
    /\ UNCHANGED <<now, accounts, youtube_analytics, refresh_failed>>
    /\ UNCHANGED served

\* the token endpoint answers the callback, which goes on to ask for the user info
TokenAnswered ==
    /\ inflight["callback"].pc = "token"
    /\ \E tr \in TokenResponses :
          inflight' = [inflight EXCEPT !["callback"] =
                          IF tr.status # 200 \/ tr.access_token = ""
                          THEN [@ EXCEPT !.pc = "returned"]
                          ELSE [@ EXCEPT !.pc = "userinfo",
                                         !.access_token = tr.access_token,
                                         !.refresh_token = tr.refresh_token]]
    /\ UNCHANGED <<now, accounts, youtube_analytics, refresh_failed>>
    /\ UNCHANGED served

\* the user-info endpoint answers: update_or_create, then the analytics fetch starts
UserInfoAnswered ==
    /\ inflight["callback"].pc = "userinfo"
    /\ \E ur \in UserInfoResponses :
          LET user_info == get_platform_user_info("youtube", ur)
              uc == update_or_create(accounts, nextId, "u1", "youtube", user_info.id,
                                     inflight["callback"].access_token,
                                     inflight["callback"].refresh_token, now)
          IN  IF ~user_info.found \/ user_info.id = ""
              THEN /\ inflight' = [inflight EXCEPT !["callback"].pc = "returned"]
                   /\ UNCHANGED <<accounts, nextId>>
              ELSE /\ accounts' = {a \in accounts : a.id # uc.account.id} \cup {uc.account}
                   /\ nextId' = IF uc.created THEN nextId + 1 ELSE nextId
                   /\ inflight' = [inflight EXCEPT !["callback"] =
                                      [@ EXCEPT !.pc = "channels", !.account = uc.account]]
    /\ UNCHANGED <<now, platforms, youtube_analytics, linkedin_analytics,
                   instagram_analytics, session, resp, refresh_failed, ops>>

\* the channels request of view v is answered
ChannelsAnswered(v) ==
    /\ inflight[v].pc = "channels"
    /\ \E r \in ChannelResponses :
          IF r.status = 401 /\ decrypt_token(inflight[v].account.refresh_token) # ""
          THEN /\ inflight' = [inflight EXCEPT ![v].pc = "refresh"]
               /\ UNCHANGED youtube_analytics
          ELSE FetchReturns(v, inflight[v].account, FALSE, r)
    /\ UNCHANGED <<now, accounts, refresh_failed>>
    /\ UNCHANGED served

\* the token endpoint answers the refresh of view v
RefreshAnswered(v) ==
    /\ inflight[v].pc = "refresh"
    /\ \E r \in RefreshResponses :
          LET rr == refresh_access_token(inflight[v].account,
                        decrypt_token(inflight[v].account.refresh_token), r, now)
          IN  IF rr.token # ""
              THEN /\ accounts' = Written(accounts, rr.account, now)
                   /\ inflight' = [inflight EXCEPT ![v] =
                                      [@ EXCEPT !.pc = "retry", !.account = rr.account]]
                   /\ UNCHANGED refresh_failed
              ELSE /\ inflight' = [inflight EXCEPT ![v].pc = "returned"]
                   /\ refresh_failed' = refresh_failed \cup {inflight[v].account.id}
                   /\ UNCHANGED accounts
    /\ UNCHANGED <<now, youtube_analytics>>
    /\ UNCHANGED served

\* the retried channels request of view v is answered
RetryAnswered(v) ==
    /\ inflight[v].pc = "retry"
    /\ \E r \in ChannelResponses : FetchReturns(v, inflight[v].account, TRUE, r)
    /\ UNCHANGED <<now, accounts, refresh_failed>>
    /\ UNCHANGED served

InitBlocking ==
    /\ now = 0
    /\ platforms = Registry
    /\ accounts = {ConcurrentAccount}
    /\ nextId = 2
    /\ youtube_analytics = {}
    /\ linkedin_analytics = {}
    /\ instagram_analytics = {}
    /\ session = [u \in Users |-> [p \in PlatformNames |-> None]]
    /\ resp = Idle
    /\ refresh_failed = {}
    /\ ops = 0
    /\ inflight = [v \in {"analytics", "callback"} |-> Accepted]

NextBlocking ==
    \/ SendChannels
    \/ SendToken
    \/ TokenAnswered
    \/ UserInfoAnswered
    \/ \E v \in {"analytics", "callback"} : ChannelsAnswered(v)
    \/ \E v \in {"analytics", "callback"} : RefreshAnswered(v)
    \/ \E v \in {"analytics", "callback"} : RetryAnswered(v)
    \/ Tick

\* the views run whenever they can; when the provider answers is up to the provider
SpecBlocking ==
    /\ InitBlocking
    /\ [][NextBlocking]_vars
    /\ WF_vars(SendChannels)
    /\ WF_vars(SendToken)

----------------------------------------------------------------------------
(* An analytics fetch of a YouTube account, interleaved at its database    *)
(* accesses and provider requests with a disconnect of the account and a   *)
(* callback that re-authorizes it.                                         *)

\* the row before the callback re-authorizes it
RaceAccount ==
    [id |-> 1, user |-> "u1", platform |-> "youtube", platform_user_id |-> "p1",
     access_token |-> "a0", refresh_token |-> "r0", token_expires_at |-> NULL,
     status |-> "connected"]

InitRace ==
    /\ now = 0
    /\ platforms = Registry
    /\ accounts = {RaceAccount}
    /\ nextId = 2
    /\ youtube_analytics = {}
    /\ linkedin_analytics = {}
    /\ instagram_analytics = {}
    /\ session = [u \in Users |-> [p \in PlatformNames |-> None]]
    /\ resp = Idle
    /\ refresh_failed = {}
    /\ ops = 0
    /\ inflight = [w \in {"w1"} |-> Waiting]

NextRace ==
    \/ LoadAccount("w1")
    \/ FirstChannels("w1")
    \/ RefreshPost("w1")
    \/ RefreshSave("w1")
    \/ RetryChannels("w1")
    \/ disconnect_account("u1", 1)
    \/ handle_oauth_callback("u1", "youtube", "code", "s1")
    \/ Deliver

SpecRace == InitRace /\ [][NextRace]_vars

----------------------------------------------------------------------------
(* The views under videos/, youtube/, linkedin/ and instagram/.  They load  *)
(* the account first and reach LinkedInPost and InstagramMedia rows only    *)
(* through account=account; those rows are outside the state kept here, so  *)
(* whether the post or media named by the request exists is an input.       *)

\* a lookup by id and platform that does not compare the owner
PlatformAccount_AnyUser(account_id, user, platform_name) ==
    {a \in accounts : a.id = account_id /\ a.platform = platform_name}

\* UserSocialAccount.objects.get(id=account_id, user=request.user, platform__name=...)
PlatformAccount(account_id, user, platform_name) ==
    {a \in accounts : a.id = account_id /\ a.user = user /\ a.platform = platform_name}

YouTubeViews ==
    {"get_videos", "get_video_details", "update_video", "get_video_categories",
     "get_supported_languages"}

LinkedInViews ==
    {"get_linkedin_organizations", "get_linkedin_posts", "get_linkedin_post_detail",
     "update_linkedin_post", "delete_linkedin_post", "create_linkedin_post"}

InstagramViews ==
    {"get_instagram_media", "get_instagram_media_detail", "update_instagram_media",
     "delete_instagram_media"}

\* the views whose URL names one post or one media
ItemViews ==
    {"get_linkedin_post_detail", "update_linkedin_post", "delete_linkedin_post",
     "get_instagram_media_detail", "update_instagram_media", "delete_instagram_media"}

\* the provider requests a YouTubeAnalyticsService method sends, in order
YouTubeRequests(view) ==
    CASE view = "get_videos" -> <<"channels", "search">>
      [] view = "get_video_details" -> <<"videos">>
      [] view = "update_video" -> <<"videos">>
      [] view = "get_video_categories" -> <<"channels", "videoCategories">>
      [] view = "get_supported_languages" -> <<"i18nLanguages">>

\* the answer of a YouTube view whose service method returned nothing: get_videos
\* answers the empty list, the categories and languages views their fallback lists
YouTubeFailure(view) ==
    CASE view = "get_video_details" -> 404
      [] view = "update_video" -> 400
      [] OTHER -> 200

\* the requests sent when the provider answers statuses[i] to the i-th one:
\* get_user_region swallows its failure and the categories request follows it, every
\* other method stops at its first failed request
YouTubeCalls(view, token, statuses) ==
    LET kinds == YouTubeRequests(view)
        sent == IF Len(kinds) = 2 /\ statuses[1] # 200 /\ view # "get_video_categories"
                THEN 1
                ELSE Len(kinds)
    IN  [i \in 1..sent |-> Call(kinds[i], token, [status |-> statuses[i]])]

\* GET videos/<account_id>/..., youtube/<account_id>/...
youtube_view(view, user, account_id) ==
    /\ resp = Idle
    /\ IF OwnedAccount(account_id, user) = {}
       THEN Reply(Response(view, user, "", account_id, 404, None, <<>>, NoBody))
       ELSE LET account == CHOOSE a \in OwnedAccount(account_id, user) : TRUE
            IN  IF account.platform # "youtube"
                THEN Reply(Response(view, user, account.platform, account_id, 400, None,
                                    <<>>, NoBody))
                ELSE IF decrypt_token(account.access_token) = ""
                THEN Reply(Response(view, user, "youtube", account_id,
                                    YouTubeFailure(view), None, <<>>, NoBody))
                ELSE \E statuses \in [1..2 -> {200, 401, 0}] :
                        LET calls == YouTubeCalls(view, account.access_token, statuses)
                        IN  Reply(Response(view, user, "youtube", account_id,
                                     IF calls[Len(calls)].response.status = 200
                                     THEN 200
                                     ELSE YouTubeFailure(view),
                                     None, calls, NoBody))

\* the views under linkedin/<account_id>/ and instagram/<account_id>/
platform_view(view, user, account_id, found) ==
    LET platform_name == IF view \in LinkedInViews THEN "linkedin" ELSE "instagram"
        matches == PlatformAccount(account_id, user, platform_name)
    IN  /\ resp = Idle
        /\ IF matches = {}
           THEN Reply(Response(view, user, "", account_id, 404, None, <<>>, NoBody))
           ELSE LET account == CHOOSE a \in matches : TRUE
                    access_token == decrypt_token(account.access_token)
                IN  IF view = "create_linkedin_post"
                    THEN IF access_token = ""
                         THEN Reply(Response(view, user, platform_name, account_id, 401,
                                             None, <<>>, NoBody))
                         ELSE \E r \in {201, 401, 0} :
                                 Reply(Response(view, user, platform_name, account_id,
                                          CASE r = 201 -> 201 [] r = 0 -> 500 [] OTHER -> 400,
                                          None,
                                          <<Call("ugcPosts", access_token, [status |-> r])>>,
                                          NoBody))
                    ELSE IF view \in ItemViews /\ ~found
                    THEN Reply(Response(view, user, platform_name, account_id, 404, None,
                                        <<>>, NoBody))
                    ELSE IF view = "delete_linkedin_post" /\ access_token # ""
                    THEN \E r \in {204, 404, 401, 0} :
                            Reply(Response(view, user, platform_name, account_id,
                                     CASE r \in {200, 204, 404} -> 200
                                       [] r = 0 -> 500
                                       [] OTHER -> 400,
                                     None,
                                     <<Call("ugcPosts", access_token, [status |-> r])>>,
                                     NoBody))
                    ELSE Reply(Response(view, user, platform_name, account_id, 200, None,
                                        <<>>, NoBody))

----------------------------------------------------------------------------
(* Two users, each with one connected account, and every view that takes an *)
(* account id.                                                              *)

OwnerAccount(id, user, platform) ==
    [id |-> id, user |-> user, platform |-> platform, platform_user_id |-> "p1",
     access_token |-> "a1", refresh_token |-> "", token_expires_at |-> NULL,
     status |-> "connected"]

InitOwnership ==
    /\ now = 0
    /\ platforms = Registry
    /\ accounts \in {{OwnerAccount(1, "u1", "youtube"), OwnerAccount(2, "u2", "linkedin")},
                    {OwnerAccount(1, "u1", "linkedin"), OwnerAccount(2, "u2", "instagram")},
                    {OwnerAccount(1, "u1", "instagram"), OwnerAccount(2, "u2", "youtube")}}
    /\ nextId = 3
    /\ youtube_analytics =
          {[account |-> a.id, data |-> EarlierSnapshot.data] :
             a \in {b \in accounts : b.platform = "youtube"}}
    /\ linkedin_analytics = {}
    /\ instagram_analytics = {}
    /\ session = [u \in Users |-> [p \in PlatformNames |-> None]]
    /\ resp = Idle
    /\ refresh_failed = {}
    /\ ops = 0
    /\ inflight = NoRequests

NextOwnership ==
    \/ \E u \in Users, id \in AccountIds : disconnect_account(u, id)
    \/ \E u \in Users, id \in AccountIds : get_account_analytics(u, id)
    \/ \E u \in Users, id \in AccountIds : refresh_account_analytics(u, id)
    \/ \E u \in Users, id \in AccountIds : get_detailed_analytics(u, id)
    \/ \E u \in Users, id \in AccountIds : debug_account(u, id)
    \/ \E u \in Users, id \in AccountIds, view \in YouTubeViews : youtube_view(view, u, id)
    \/ \E u \in Users, id \in AccountIds, view \in LinkedInViews \cup InstagramViews :
          \E found \in BOOLEAN : platform_view(view, u, id, found)
    \/ Deliver

SpecOwnership == InitOwnership /\ [][NextOwnership]_vars

----------------------------------------------------------------------------
(* Properties *)

\* the views that load one account and run a fetch for it
FetchOps == {"analytics", "refresh", "detailed"}

\* the requests of resp that fetch_channel_analytics sent, in order
FetchCalls == SelectSeq(resp.calls, LAMBDA c : c.kind \in {"channels", "refresh"})

\* C1: a callback whose state differs from the state initiate_oauth issued for the
\* (user, platform) pair - a forged state, no state issued, no state carried - is
\* answered 400, sends no token request and leaves the account table as it was.
C1_StateMismatchRejected ==
    [][(/\ resp = Idle
        /\ resp'.op = "callback"
        /\ \/ resp'.body.req.stored_state = None
           \/ resp'.body.req.state = None
           \/ resp'.body.req.state # resp'.body.req.stored_state)
       => /\ resp'.http = 400
          /\ resp'.calls = <<>>
          /\ accounts' = accounts]_vars

\* C2: after a successful callback, a read of the account returns status connected
\* and the platform_user_id the provider's user-info answer carried, whatever the
\* row was before (absent, connected, expired with a past token_expires_at).
C2_CallbackConnects ==
    (resp.op = "callback" /\ resp.http = 200)
    => \E a \in accounts :
          /\ a.id = resp.account_id
          /\ a.user = resp.user
          /\ a.platform = resp.platform
          /\ UserSocialAccountSerializer(a, now).status = "connected"
          /\ UserSocialAccountSerializer(a, now).platform_user_id = resp.calls[2].response.id

\* C3: after every successful callback there is exactly one row for the
\* (user, platform, platform_user_id) triple, and it carries the refresh token the
\* callback was granted, the access token the callback last obtained and status
\* connected.
C3_RepeatedCallbackOneRow ==
    (resp.op = "callback" /\ resp.http = 200)
    => LET rows == {a \in accounts : /\ a.user = resp.user
                                     /\ a.platform = resp.platform
                                     /\ a.platform_user_id = resp.calls[2].response.id}
           granted == resp.calls[1].response
           last == resp.calls[Len(resp.calls)]
       IN  /\ Cardinality(rows) = 1
           /\ \A a \in rows :
                 /\ a.refresh_token = granted.refresh_token
                 /\ a.access_token = IF last.kind = "channels" THEN last.token
                                     ELSE granted.access_token
                 /\ a.status = "connected"

\* C4: one fetch sends at most one refresh request and at most two channel requests
\* (the call and one retry); when the channel call is answered 401, the refresh
\* grants a token and the retry is answered with a channel, the granted token is the
\* one the retry carried and the one stored on the account row, the analytics row is
\* written and the fetch returns data.
C4_RefreshThenRetry ==
    resp.op \in FetchOps \cup {"callback"}
    => /\ Cardinality({i \in DOMAIN FetchCalls : FetchCalls[i].kind = "refresh"}) <= 1
       /\ Cardinality({i \in DOMAIN FetchCalls : FetchCalls[i].kind = "channels"}) <= 2
       /\ (/\ Len(FetchCalls) = 3
           /\ FetchCalls[1].response.status = 401
           /\ FetchCalls[2].kind = "refresh"
           /\ FetchCalls[2].response.status = 200
           /\ FetchCalls[2].response.access_token # ""
           /\ FetchCalls[3].response.status = 200
           /\ FetchCalls[3].response.items > 0)
          => /\ resp.result = "data"
             /\ FetchCalls[3].token = FetchCalls[2].response.access_token
             /\ \E a \in accounts : /\ a.id = resp.account_id
                                    /\ a.access_token = FetchCalls[2].response.access_token
             /\ \E r \in youtube_analytics :
                   /\ r.account = resp.account_id
                   /\ r.data.subscriber_count = FetchCalls[3].response.items

\* a view fetched for a stored account, was answered 401, refreshed, retried and
\* returned data with the refreshed token stored
C4_Witness ==
    /\ resp.op \in FetchOps
    /\ Len(resp.calls) = 3
    /\ resp.calls[1].response.status = 401
    /\ resp.result = "data"
    /\ \E a \in accounts : a.id = resp.account_id /\ a.access_token \in RefreshedTokens

\* C5: when the channel call of a fetch is answered 401 and the account has no
\* refresh token, or the retry after a granted refresh fails again, the fetch returns
\* None and the account row has status expired.
C5_UnauthorizedMarksExpired ==
    (/\ resp.op \in FetchOps \cup {"callback"}
     /\ Len(FetchCalls) > 0
     /\ FetchCalls[1].response.status = 401
     /\ \/ \E a \in accounts : a.id = resp.account_id /\ a.refresh_token = ""
        \/ Len(FetchCalls) = 3 /\ FetchCalls[3].response.status # 200)
    => /\ resp.result = None
       /\ \E a \in accounts : a.id = resp.account_id /\ a.status = "expired"

\* C6: when the channel call of a view's fetch is answered 401 and the refresh
\* request fails (non-200, no access_token, exception), the account row is kept,
\* its status is expired and its other fields are what they were.
C6_RefreshFailureMarksExpired ==
    [][(/\ resp = Idle
        /\ resp'.op \in FetchOps
        /\ RefreshFailed(resp'.calls)
        /\ resp'.calls[1].response.status = 401)
       => \E a \in accounts :
             /\ a.id = resp'.account_id
             /\ [a EXCEPT !.status = "expired"] \in accounts']_vars

\* C7: a view's fetch for an account a refresh has failed for since its last
\* successful callback sends no refresh request.
C7_NoRefreshAfterFailure ==
    [][(/\ resp = Idle
        /\ resp'.op \in FetchOps
        /\ resp'.account_id \in refresh_failed)
       => \A i \in DOMAIN resp'.calls : resp'.calls[i].kind # "refresh"]_vars

\* C8: when a view's fetch refreshes the token of an account whose stored status is
\* expired, and the refresh grants a token with an expiry ahead, the stored status
\* afterwards is connected.
C8_RefreshReconnects ==
    [][(/\ resp = Idle
        /\ resp'.op \in FetchOps
        /\ Len(resp'.calls) >= 2
        /\ resp'.calls[2].kind = "refresh"
        /\ resp'.calls[2].response.status = 200
        /\ resp'.calls[2].response.access_token # ""
        /\ resp'.calls[2].response.expires_in > 0
        /\ \E a \in accounts : a.id = resp'.account_id /\ a.status = "expired")
       => \E a \in accounts' : a.id = resp'.account_id /\ a.status = "connected"]_vars

\* C9: every read path reports status expired for an account whose token_expires_at
\* is at or before now: the accounts list, the callback response and the debug
\* endpoint return it as expired, and the analytics list (which keeps the connected
\* accounts) leaves it out.
C9_ExpiredOnRead ==
    /\ resp.op = "accounts"
       => \A s \in resp.body : s.is_expired => s.status = "expired"
    /\ (resp.op = "callback" /\ resp.http = 200)
       => (resp.body.account.is_expired => resp.body.account.status = "expired")
    /\ (resp.op = "debug" /\ resp.http = 200)
       => (resp.body.is_token_expired => resp.body.status = "expired")
    /\ resp.op = "analytics_list"
       => \A item \in resp.body :
             \A a \in accounts : a.id = item.account_id => ~is_token_expired(a, now)

\* C10: disconnect_account deletes the row of the given id when the caller owns it
\* and nothing else; for an id the caller does not own it answers 404 and leaves
\* every account and analytics row as it was.
C10_DisconnectOwnedOnly ==
    [][(resp = Idle /\ resp'.op = "disconnect")
       => IF \E a \in accounts : a.id = resp'.account_id /\ a.user = resp'.user
          THEN /\ resp'.http = 200
               /\ accounts' = {a \in accounts : a.id # resp'.account_id}
          ELSE /\ resp'.http = 404
               /\ accounts' = accounts
               /\ youtube_analytics' = youtube_analytics
               /\ linkedin_analytics' = linkedin_analytics
               /\ instagram_analytics' = instagram_analytics]_vars

\* a user asked to disconnect an account of another user: 404, the row is still there
C10_Witness ==
    /\ resp.op = "disconnect"
    /\ resp.http = 404
    /\ \E a \in accounts : a.id = resp.account_id /\ a.user # resp.user

\* C11: a successful disconnect leaves no row and no analytics snapshot for the
\* account id; from then on the id stays without row and snapshot (new accounts get
\* new ids) and every analytics view asked for it answers 404.
C11_DisconnectedStaysGone ==
    [][/\ (resp = Idle /\ resp'.op = "disconnect" /\ resp'.http = 200)
          => /\ \A a \in accounts' : a.id # resp'.account_id
             /\ \A r \in youtube_analytics' \cup linkedin_analytics' \cup instagram_analytics' :
                   r.account # resp'.account_id
       /\ \A id \in AccountIds :
             (/\ id < nextId
              /\ \A a \in accounts : a.id # id
              /\ \A r \in youtube_analytics \cup linkedin_analytics \cup instagram_analytics :
                    r.account # id)
             => /\ \A a \in accounts' : a.id # id
                /\ \A r \in youtube_analytics' \cup linkedin_analytics' \cup instagram_analytics' :
                      r.account # id
                /\ (resp = Idle /\ resp'.op \in FetchOps /\ resp'.account_id = id)
                   => resp'.http = 404]_vars

\* an analytics view was asked for the id of an account that was disconnected
C11_Witness ==
    /\ resp.op \in FetchOps
    /\ resp.http = 404
    /\ resp.account_id < nextId
    /\ \A a \in accounts : a.id # resp.account_id

\* the callback request that has just been answered failed before the account was
\* written: no code, a token exchange that failed or granted no access_token, or a
\* user-info lookup that failed (error status, network error, empty youtube channel
\* list, or a platform without a user-info lookup)
CallbackFailed(r) ==
    \/ r.body.code = ""
    \/ /\ Len(r.calls) >= 1
       /\ r.calls[1].kind = "token"
       /\ \/ r.calls[1].response.status # 200
          \/ r.calls[1].response.access_token = ""
          \/ Len(r.calls) = 1
          \/ /\ r.calls[2].kind = "userinfo"
             /\ \/ r.calls[2].response.status # 200
                \/ r.platform = "youtube" /\ r.calls[2].response.id = ""

\* C12: a callback without a code, with a failed token exchange, with a token response
\* without access_token or with a failed user-info lookup answers an error and leaves
\* the account table (and the analytics tables) as they were.
C12_FailedCallbackChangesNothing ==
    [][(resp = Idle /\ resp'.op = "callback" /\ CallbackFailed(resp'))
       => /\ resp'.http \in {400, 404, 500}
          /\ resp'.body.success = FALSE
          /\ accounts' = accounts
          /\ nextId' = nextId
          /\ youtube_analytics' = youtube_analytics
          /\ linkedin_analytics' = linkedin_analytics
          /\ instagram_analytics' = instagram_analytics]_vars

\* a callback whose user-info lookup failed was answered while the user already had
\* an account
C12_Witness ==
    /\ resp.op = "callback"
    /\ Len(resp.calls) = 2
    /\ resp.calls[2].kind = "userinfo"
    /\ resp.calls[2].response.status # 200
    /\ \E a \in accounts : a.user = resp.user /\ a.platform = resp.platform

\* C14: a connect request for an active platform whose client id or client secret is
\* empty is answered 503 with setup_required, carries no authorization URL and no
\* state token, and leaves the stored states as they were.
C14_UnconfiguredPlatformRefused ==
    [][(/\ resp = Idle
        /\ resp'.op = "connect"
        /\ \E p \in platforms :
              /\ p.name = resp'.platform
              /\ p.is_active
              /\ (p.oauth_client_id = "" \/ p.oauth_client_secret = ""))
       => /\ resp'.http = 503
          /\ resp'.body.setup_required = TRUE
          /\ DOMAIN resp'.body = {"setup_required"}
          /\ session' = session]_vars

\* a connect request for an active platform with a client id and no client secret
\* was refused
C14_Witness ==
    /\ resp.op = "connect"
    /\ resp.http = 503
    /\ \E p \in platforms :
          /\ p.name = resp.platform
          /\ p.is_active
          /\ p.oauth_client_id # ""
          /\ p.oauth_client_secret = ""

\* the platform name of a request matches no active SocialPlatform row
NotActive(platform_name) ==
    \A p \in platforms : p.name = platform_name => ~p.is_active

\* what a request that stops at the platform lookup leaves alone: no state stored, no
\* request sent, no account row created or changed
NothingDone ==
    /\ resp'.calls = <<>>
    /\ session' = session
    /\ accounts' = accounts
    /\ nextId' = nextId

\* C15 as stated: a connect request and a callback for a platform name that is unknown
\* or inactive are answered platform-not-found (404), with no state stored, no token
\* request sent and no account row created or changed.
C15_UnknownPlatformNotFound ==
    [][(/\ resp = Idle
        /\ resp'.op \in {"connect", "callback"}
        /\ NotActive(resp'.platform))
       => (resp'.http = 404 /\ NothingDone)]_vars

\* C15: a connect request, and a callback that carries a code, for a platform name that
\* is unknown or inactive are answered platform-not-found (404); a callback without a
\* code is answered 400 before the platform is looked up; in each case no state is
\* stored, no token request is sent and no account row is created or changed.
C15_UnknownPlatformNotFoundWithCode ==
    [][(/\ resp = Idle
        /\ resp'.op \in {"connect", "callback"}
        /\ NotActive(resp'.platform))
       => /\ NothingDone
          /\ resp'.http = IF resp'.op = "callback" /\ resp'.body.code = ""
                          THEN 400 ELSE 404]_vars

\* a callback with a code for an inactive platform was answered not-found
C15_Witness ==
    /\ resp.op = "callback"
    /\ resp.body.code # ""
    /\ resp.http = 404
    /\ \E p \in platforms : p.name = resp.platform /\ ~p.is_active

\* the token exchange and the user-info lookup of the callback just answered succeeded
CallbackGranted ==
    /\ resp.op = "callback"
    /\ Len(resp.calls) >= 2
    /\ resp.calls[1].kind = "token"
    /\ resp.calls[1].response.status = 200
    /\ resp.calls[1].response.access_token # ""
    /\ resp.calls[2].kind = "userinfo"
    /\ resp.calls[2].response.status = 200
    /\ resp.calls[2].response.id # ""

\* the access token a successful refresh among the fetch requests granted, if any
RefreshedBy(calls) ==
    {calls[i].response.access_token :
        i \in {j \in 1..Len(calls) : /\ calls[j].kind = "refresh"
                                     /\ calls[j].response.status = 200
                                     /\ calls[j].response.access_token # ""}}

snapshots == <<youtube_analytics, linkedin_analytics, instagram_analytics>>

\* the provider requests of a fetch that fetch analytics data (the token refresh is
\* not one of them)
DataCalls(calls) == SelectSeq(calls, LAMBDA c : c.kind # "refresh")

\* a provider request that was answered non-2xx or not answered at all
CallFailed(c) == c.response.status = 0 \/ c.response.status >= 400

\* C17: an analytics view writes a snapshot row only when a provider request of its
\* fetch succeeded; a fetch whose provider requests all failed (non-2xx or network
\* error) leaves the snapshot tables as they were and returns None.
C17_SnapshotOnlyOnSuccess ==
    [][(resp = Idle /\ resp'.op \in FetchOps /\ resp'.http # 404)
       => LET calls == DataCalls(resp'.calls)
          IN  /\ snapshots' # snapshots
                 => \E i \in 1..Len(calls) : ~CallFailed(calls[i])
              /\ (\A i \in 1..Len(calls) : CallFailed(calls[i]))
                 => (snapshots' = snapshots /\ resp'.result = None)]_vars

\* the count a fetcher reads from the answer to its request of the given kind sent
\* at position i or later (0 when there is none, it failed or carried no count)
CountFrom(calls, kind, i) ==
    LET at == {j \in i..Len(calls) : calls[j].kind = kind}
    IN  IF at = {} THEN 0
        ELSE LET c == calls[CHOOSE j \in at : \A k \in at : k <= j]
             IN  IF CallFailed(c) THEN 0
                 ELSE IF kind = "channels" THEN c.response.items
                 ELSE IF c.response.n > 0 THEN c.response.n ELSE 0

\* the metrics a fetch of the platform returns, read from the provider's answers
Returned(platform, calls) ==
    CASE platform = "youtube" ->
           [written |-> TRUE, subscriber_count |-> CountFrom(calls, "channels", 1)]
      [] platform = "linkedin" ->
           [written |-> TRUE,
            total_organizations |-> CountFrom(calls, "organizationAcls", 1),
            post_count |-> CountFrom(calls, "ugcPosts", 1)]
      [] platform = "instagram" ->
           LET followers == CountFrom(calls, "details", 1)
               likes == CountFrom(calls, "media", 1)
           IN  [written |-> TRUE, follower_count |-> followers, total_likes |-> likes,
                engagement_rate |-> IF likes > 0 /\ followers > 0
                                    THEN (10000 * likes) \div (followers * likes) ELSE 0]

\* the snapshot rows of an account in the tables s
RowsOf(s, account_id) ==
    {r \in s[1] \cup s[2] \cup s[3] : r.account = account_id}

\* C18: an account has at most one snapshot row; a fetch that succeeded (a provider
\* request of it succeeded and it returned data) leaves the row holding exactly the
\* metrics of that fetch, whatever the row held before; any other fetch leaves the
\* snapshot tables as they were.
C18_SnapshotIsLastSuccessfulFetch ==
    [][(resp = Idle /\ resp'.op \in FetchOps /\ resp'.http # 404)
       => LET calls == DataCalls(resp'.calls)
              succeeded == /\ resp'.result = "data"
                           /\ \E i \in 1..Len(calls) : ~CallFailed(calls[i])
          IN  /\ \A id \in AccountIds : Cardinality(RowsOf(snapshots', id)) <= 1
              /\ IF succeeded
                 THEN RowsOf(snapshots', resp'.account_id)
                         = {[account |-> resp'.account_id,
                             data |-> Returned(resp'.platform, resp'.calls)]}
                 ELSE snapshots' = snapshots]_vars

\* a payload the fetcher cannot read: a body that is not the expected JSON
Malformed(c) ==
    /\ c.response.status = 200
    /\ \/ c.kind = "channels" /\ c.response.items < 0
       \/ c.kind = "userinfo" /\ c.response.sub = None
       \/ c.kind \notin {"channels", "userinfo", "refresh"} /\ c.response.n < 0

\* C19: whatever the provider answers (non-2xx, no answer, an empty or an unreadable
\* payload) update_account_analytics returns data or None, and the analytics view
\* answers 404 (not the user's account), 200, or 400 (a refresh that got None).
C19_FetchNeverRaises ==
    resp.op \in FetchOps
    => /\ resp.result \in {"data", None}
       /\ resp.http \in {200, 400, 404}
       /\ resp.http = 404 <=> OwnedAccount(resp.account_id, resp.user) = {}
       /\ resp.http = 400 <=> (/\ OwnedAccount(resp.account_id, resp.user) # {}
                               /\ resp.op = "refresh"
                               /\ resp.result = None)

\* a refresh view was answered 400 after the provider sent an unreadable payload
C19_Witness ==
    /\ resp.op = "refresh"
    /\ resp.http = 400
    /\ resp.result = None
    /\ \E i \in 1..Len(resp.calls) : Malformed(resp.calls[i])

\* the profile request of a LinkedIn fetch was answered with a subject that another
\* account of the same user already has: account.save() raises IntegrityError
SubjectTaken(r) ==
    /\ Len(r.calls) >= 1
    /\ r.calls[1].response.status = 200
    /\ r.calls[1].response.sub \notin {"", None}
    /\ \E a \in accounts : /\ a.id # r.account_id
                           /\ a.user = r.user
                           /\ a.platform = r.platform
                           /\ a.platform_user_id = r.calls[1].response.sub

\* C20: a LinkedIn fetch sends the profile, organizations and posts requests whatever
\* the others are answered, returns data, and stores for each of organizations and
\* posts the count its own request delivered, or zero if that request failed
\* (provided the profile's subject is not one another account of the user holds).
C20_LinkedInSubFetchesIndependent ==
    [][(/\ resp = Idle
        /\ resp'.op \in FetchOps
        /\ resp'.platform = "linkedin"
        /\ ~SubjectTaken(resp'))
       => /\ resp'.result = "data"
          /\ [i \in 1..Len(resp'.calls) |-> resp'.calls[i].kind]
                = <<"userinfo", "organizationAcls", "ugcPosts">>
          /\ \E row \in linkedin_analytics' :
                /\ row.account = resp'.account_id
                /\ row.data.total_organizations =
                      IF CallFailed(resp'.calls[2]) \/ resp'.calls[2].response.n < 0
                      THEN 0 ELSE resp'.calls[2].response.n
                /\ row.data.post_count =
                      IF CallFailed(resp'.calls[3]) \/ resp'.calls[3].response.n < 0
                      THEN 0 ELSE resp'.calls[3].response.n]_vars

\* a LinkedIn fetch stored the organizations it was given although the profile and
\* the posts requests failed
C20_Witness ==
    /\ resp.op \in FetchOps
    /\ resp.platform = "linkedin"
    /\ resp.result = "data"
    /\ Len(resp.calls) = 3
    /\ CallFailed(resp.calls[1])
    /\ resp.calls[2].response.status = 200
    /\ resp.calls[2].response.n = 2
    /\ CallFailed(resp.calls[3])
    /\ \E row \in linkedin_analytics :
          /\ row.account = resp.account_id
          /\ row.data.total_organizations = 2
          /\ row.data.post_count = 0

\* both workers loaded the same row, were granted a token and have finished
BothRefreshed ==
    /\ \A w \in Workers : inflight[w].pc = "done" /\ inflight[w].granted.status = 200
    /\ \A v, w \in Workers : inflight[v].loaded = inflight[w].loaded

\* the row as the refresh of worker w alone leaves it: the access token it was
\* granted, and the expiry computed from its expires_in (the expiry it loaded when
\* the response carried none)
StoredBy(a, w) ==
    /\ a.access_token = inflight[w].granted.access_token
    /\ a.token_expires_at = IF inflight[w].granted.expires_in # 0
                            THEN inflight[w].at + inflight[w].granted.expires_in
                            ELSE inflight[w].loaded.token_expires_at

C21_EveryPlatformFetches ==
    (resp.op = "refresh" /\ resp.http # 404 /\ resp.platform \in PLATFORM_CHOICES)
    => Len(resp.calls) >= 1

\* the token exchange of the callback just answered succeeded and the provider did not
\* fail the user-info request, if one was sent
ExchangeSucceeded ==
    /\ resp.op = "callback"
    /\ resp.body.code # ""
    /\ Len(resp.calls) >= 1
    /\ resp.calls[1].kind = "token"
    /\ resp.calls[1].response.status = 200
    /\ resp.calls[1].response.access_token # ""
    /\ Len(resp.calls) >= 2
       => (resp.calls[2].response.status = 200 /\ resp.calls[2].response.id # "")

\* C22: on each of the five platforms, active and fully configured, a callback with a
\* code whose token exchange succeeds is answered success and leaves a connected
\* account row of that user and platform.
C22_EveryPlatformConnects ==
    (ExchangeSucceeded /\ resp.platform \in PLATFORM_CHOICES)
    => /\ resp.http = 200
       /\ \E a \in accounts : /\ a.user = resp.user
                              /\ a.platform = resp.platform
                              /\ a.status = "connected"

\* the value the authorization server reads from a query parameter: percent-escapes
\* and "+" decoded; a character sent as it is reads as itself
QueryValue(sent) ==
    [i \in 1..Len(sent) |->
        CASE sent[i] = "+" -> " "
          [] sent[i] = "%2C" -> ","
          [] sent[i] = "%3A" -> ":"
          [] sent[i] = "%2F" -> "/"
          [] OTHER -> sent[i]]

\* C23: for an active platform with client id and secret, the authorization URL
\* carries the platform's client_id, the callback redirect_uri, response_type=code, the
\* state that is also returned in the response and stored in the session, and the
\* configured scope string with every scope of it; for YouTube also
\* access_type=offline and prompt=consent.
C23_AuthorizationUrlComplete ==
    [][(/\ resp = Idle
        /\ resp'.op = "connect"
        /\ \E p \in ActivePlatform(resp'.platform) : OAuthConfigured(p))
       => /\ resp'.http = 200
          /\ LET url == resp'.body.authorization_url
             IN  /\ \E p \in ActivePlatform(resp'.platform) :
                       url.client_id = p.oauth_client_id /\ url.client_id # ""
                 /\ QueryValue(url.redirect_uri) = redirect_uri(resp'.platform)
                 /\ url.response_type = "code"
                 /\ url.state \in States
                 /\ url.state = resp'.body.state
                 /\ url.state = session'[resp'.user][resp'.platform]
                 /\ QueryValue(url.scope) = oauth_scope(resp'.platform)
                 /\ Len(url.scope) > 0
                 /\ resp'.platform = "youtube"
                    => (url.access_type = "offline" /\ url.prompt = "consent")]_vars

\* an authorization URL was issued whose scope string had to be escaped
C23_Witness ==
    /\ resp.op = "connect"
    /\ resp.http = 200
    /\ resp.platform = "youtube"
    /\ resp.body.authorization_url.scope # oauth_scope("youtube")
    /\ QueryValue(resp.body.authorization_url.scope) = oauth_scope("youtube")

\* C24: the engagement rate a fetch stores is (likes + comments) / (followers x posts)
\* x 100 when followers > 0 and a post was fetched, and 0 otherwise; followers 1000,
\* likes 40, comments 10, 5 posts store 1.0.  (Stored rates are in hundredths.)
C24_EngagementRateStored ==
    inflight.pc # "fetch"
    => \E row \in instagram_analytics :
          /\ row.account = 1
          /\ IF inflight.followers > 0 /\ inflight.posts > 0
             THEN row.data.engagement_rate * (inflight.followers * inflight.posts)
                     = 100 * 100 * (inflight.likes + inflight.comments)
             ELSE row.data.engagement_rate = 0

\* C25: every analytics fetch and every callback eventually returns to its caller,
\* whether or not the provider answers.
C25_EveryRequestReturns ==
    <>(\A v \in {"analytics", "callback"} : inflight[v].pc = "returned")

\* C26: when a callback for (user, platform) has been answered, with success or with
\* an error, no state token is stored for that pair any more.
C26_StateClearedByCallback ==
    [][(resp = Idle /\ resp'.op = "callback")
       => session'[resp'.user][resp'.platform] = None]_vars

\* C27: when a disconnect of the account has succeeded and the fetch that was in
\* flight has finished, there is no account row and no analytics snapshot for it.
C27_DisconnectedNotRecreated ==
    (/\ resp.op = "disconnect"
     /\ resp.http = 200
     /\ inflight["w1"].pc = "done")
    => /\ \A a \in accounts : a.id # resp.account_id
       /\ \A r \in youtube_analytics : r.account # resp.account_id

\* C28: when a callback has re-authorized the account and the fetch that loaded the
\* row before has finished, the stored refresh_token and status are the callback's
\* and the stored access_token is not the one from before the callback.
C28_CallbackTokensKept ==
    (/\ resp.op = "callback"
     /\ resp.http = 200
     /\ inflight["w1"].pc = "done"
     /\ inflight["w1"].loaded = RaceAccount)
    => \E a \in accounts :
          /\ a.id = resp.account_id
          /\ a.refresh_token = resp.calls[1].response.refresh_token
          /\ a.status = "connected"
          /\ a.access_token # RaceAccount.access_token

\* C29: a request to a view that takes an account id, made by a user for an account
\* that another user owns, is answered 404, sends no provider request and leaves
\* every account row and analytics row as it was.
C29_ForeignAccountNotFound ==
    [][(/\ resp = Idle
        /\ resp' # Idle
        /\ \E a \in accounts : a.id = resp'.account_id /\ a.user # resp'.user)
       => /\ resp'.http = 404
          /\ resp'.calls = <<>>
          /\ accounts' = accounts
          /\ youtube_analytics' = youtube_analytics
          /\ linkedin_analytics' = linkedin_analytics
          /\ instagram_analytics' = instagram_analytics]_vars

\* u1 asked to create a LinkedIn post with the LinkedIn account of u2, which holds a
\* token: 404 and no request was sent
C29_Witness ==
    /\ resp.op = "create_linkedin_post"
    /\ resp.http = 404
    /\ resp.calls = <<>>
    /\ \E a \in accounts :
          /\ a.id = resp.account_id
          /\ a.user # resp.user
          /\ a.platform = "linkedin"
          /\ a.access_token # ""

\* C30: an analytics fetch leaves the identity of every account row (its id, owner,
\* platform and platform_user_id) and its refresh_token as they were.
C30_FetchKeepsIdentity ==
    [][(resp = Idle /\ resp'.op \in FetchOps)
       => \A a \in accounts :
             \E b \in accounts' :
                /\ b.id = a.id
                /\ b.user = a.user
                /\ b.platform = a.platform
                /\ b.platform_user_id = a.platform_user_id
                /\ b.refresh_token = a.refresh_token]_vars

====
